---------------------------- MODULE Spec2Model ----------------------------
(***************************************************************************)
(* Model of the sudoku-tester library (src/src/lib.rs): Sudoku::from_str,  *)
(* the Display rendering and Sudoku::validate.                             *)
(*                                                                         *)
(* A text is a sequence of characters (one-character strings).  A grid is  *)
(* a function [0..8 -> [0..8 -> u8]], indexed as the Rust array is.  A     *)
(* Result is a record with a "tag" field.                                  *)
(***************************************************************************)
EXTENDS Integers, Sequences, FiniteSets, TLC

VARIABLES
    text,        \* the &str handed to from_str
    pc,          \* position of the caller: start, parsed, validated
    parsed,      \* Result<Sudoku, ParseError> of from_str(text)
    vres,        \* outcome of Sudoku::validate on the parsed grid
    rendered,    \* text written by Display for the parsed grid
    reparsed,    \* from_str(rendered)
    grid,        \* cell pass: self.grid
    ci,          \* cell pass: loop variable i (SUDOKU_SIZE when the loops are over)
    cj,          \* cell pass: loop variable j
    row_seen,    \* cell pass: row_seen
    column_seen, \* cell pass: column_seen
    boxes_seen,  \* cell pass: boxes_seen
    cres,        \* cell pass: outcome of validate
    cpc          \* cell pass: idle, cells, extract, done, panicked

vars == <<text, pc, parsed, vres, rendered, reparsed,
          grid, ci, cj, row_seen, column_seen, boxes_seen, cres, cpc>>

-----------------------------------------------------------------------------
(* Program constants *)

SUDOKU_SIZE == 9

\* capacity of Indexes = ArrayVec<[(usize, usize); 9]>
IndexesCapacity == 9

\* the 3 of box_index = (i / 3) * 3 + (j / 3)
BoxSide == 3

Idx == 0..(SUDOKU_SIZE - 1)

-----------------------------------------------------------------------------
(* Bounds of the checked input space *)

\* cells of a base grid that the inputs overwrite (first NumProbes of ProbeCells)
NumProbes == 4

\* largest number of lines of an input text
MaxLines == 10

-----------------------------------------------------------------------------
(* Characters *)

LF == "\n"
CR == "\r"
None == -1

DigitChars == <<"0", "1", "2", "3", "4", "5", "6", "7", "8", "9">>

\* to_digit with radix 16 for the letter a
to_digit_hex(c) ==
    IF c = "a" THEN 10
    ELSE IF \E d \in 1..10 : DigitChars[d] = c
         THEN (CHOOSE d \in 1..10 : DigitChars[d] = c) - 1
         ELSE None

\* char::to_digit(10): Some(value) for an ASCII decimal digit, None otherwise
to_digit(c) ==
    IF \E d \in 1..10 : DigitChars[d] = c
    THEN (CHOOSE d \in 1..10 : DigitChars[d] = c) - 1
    ELSE None

\* write!(f, "{}", val) for a u8: its decimal digits, most significant first
RECURSIVE FmtU8(_)
FmtU8(val) ==
    IF val < 10 THEN <<DigitChars[val + 1]>>
    ELSE FmtU8(val \div 10) \o <<DigitChars[(val % 10) + 1]>>

-----------------------------------------------------------------------------
(* str::lines *)

FirstLF(s) ==
    IF \E k \in 1..Len(s) : s[k] = LF
    THEN CHOOSE k \in 1..Len(s) : s[k] = LF /\ \A m \in 1..(k - 1) : s[m] # LF
    ELSE 0

\* a line ended by LF loses one CR before that LF
StripCR(l) ==
    IF Len(l) > 0 /\ l[Len(l)] = CR THEN SubSeq(l, 1, Len(l) - 1) ELSE l

\* the lines of s: split after every LF; the last line needs no LF; a final
\* LF starts no further line
RECURSIVE lines(_)
lines(s) ==
    IF Len(s) = 0 THEN <<>>
    ELSE LET k == FirstLF(s)
         IN  IF k = 0 THEN <<s>>
             ELSE <<StripCR(SubSeq(s, 1, k - 1))>> \o lines(SubSeq(s, k + 1, Len(s)))

-----------------------------------------------------------------------------
(* Sudoku::from_str *)

WrongSymbol(c) == [tag |-> "WrongSymbol", c |-> c]
WrongRowSize(index, len) == [tag |-> "WrongRowSize", index |-> index, len |-> len]
WrongColumnSize(n) == [tag |-> "WrongColumnSize", column_count |-> n]
OkGrid(g) == [tag |-> "Ok", grid |-> g]
OkRow(vals) == [tag |-> "Ok", vals |-> vals]

\* the row closure with the length checked before the symbols
ParseRowLenFirst(row, line) ==
    IF Len(line) # SUDOKU_SIZE THEN WrongRowSize(row, Len(line))
    ELSE IF \E k \in 1..Len(line) : to_digit(line[k]) = None
         THEN WrongSymbol(line[CHOOSE k \in 1..Len(line) :
                  /\ to_digit(line[k]) = None
                  /\ \A m \in 1..(k - 1) : to_digit(line[m]) # None])
         ELSE OkRow([k \in 1..Len(line) |-> to_digit(line[k])])

\* the closure applied to one (row, line): decode every character, stopping
\* at the first that is no digit; then convert the Vec to [u8; 9]
ParseRow(row, line) ==
    IF \E k \in 1..Len(line) : to_digit(line[k]) = None
    THEN WrongSymbol(line[CHOOSE k \in 1..Len(line) :
             /\ to_digit(line[k]) = None
             /\ \A m \in 1..(k - 1) : to_digit(line[m]) # None])
    ELSE IF Len(line) # SUDOKU_SIZE
         THEN WrongRowSize(row, Len(line))
         ELSE OkRow([k \in 1..Len(line) |-> to_digit(line[k])])

\* from_str with the number of rows checked before the rows
from_str_count_first(s) ==
    LET ls   == lines(s)
        rows == [r \in 1..Len(ls) |-> ParseRow(r - 1, ls[r])]
        bad  == {r \in 1..Len(ls) : rows[r].tag # "Ok"}
    IN  IF Len(ls) # SUDOKU_SIZE THEN WrongColumnSize(Len(ls))
        ELSE IF bad # {}
             THEN rows[CHOOSE r \in bad : \A q \in bad : r <= q]
             ELSE OkGrid([i \in Idx |-> [j \in Idx |-> rows[i + 1].vals[j + 1]]])

\* the outer try_collect stops at the first row whose closure returned Err;
\* the Vec of rows is converted to [[u8; 9]; 9] only when every row passed
from_str(s) ==
    LET ls   == lines(s)
        rows == [r \in 1..Len(ls) |-> ParseRow(r - 1, ls[r])]
        bad  == {r \in 1..Len(ls) : rows[r].tag # "Ok"}
    IN  IF bad # {}
        THEN rows[CHOOSE r \in bad : \A q \in bad : r <= q]
        ELSE IF Len(ls) # SUDOKU_SIZE
             THEN WrongColumnSize(Len(ls))
             ELSE OkGrid([i \in Idx |-> [j \in Idx |-> rows[i + 1].vals[j + 1]]])

-----------------------------------------------------------------------------
(* impl fmt::Display for Sudoku *)

\* one row: the values, a " " before every value but the first
RECURSIVE FmtRowFrom(_, _)
FmtRowFrom(row, col) ==
    IF col = SUDOKU_SIZE THEN <<>>
    ELSE (IF col > 0 THEN <<" ">> ELSE <<>>) \o FmtU8(row[col])
         \o FmtRowFrom(row, col + 1)

\* every row followed by writeln!
RECURSIVE FmtFrom(_, _)
FmtFrom(g, i) ==
    IF i = SUDOKU_SIZE THEN <<>>
    ELSE FmtRowFrom(g[i], 0) \o <<LF>> \o FmtFrom(g, i + 1)

\* the rendering with write! in place of writeln!
fmt_no_newline(g) == SelectSeq(FmtFrom(g, 0), LAMBDA c : c # LF)

\* the rendering of the whole grid

fmt(g) == FmtFrom(g, 0)


-----------------------------------------------------------------------------
(* Sudoku::validate: the Number slots *)

Unknown == [tag |-> "Unknown"]
Present(row, col) == [tag |-> "Present", row |-> row, col |-> col]
Corrupted(indexes) == [tag |-> "Corrupted", indexes |-> indexes]

\* stands for the unwinding of ArrayVec::push on a full Indexes
Overflow == [tag |-> "Overflow"]

Panic(msg) == [tag |-> "Panic", msg |-> msg]

\* indicate losing the first coordinate on the second occurrence
indicate_drop_first(n, new_row, new_col) ==
    IF n.tag = "Unknown" THEN Present(new_row, new_col)
    ELSE IF n.tag = "Present"
         THEN Corrupted(<< <<new_row, new_col>> >>)
         ELSE IF Len(n.indexes) >= IndexesCapacity THEN Overflow
              ELSE Corrupted(Append(n.indexes, <<new_row, new_col>>))

\* indicate starting a slot over once it holds three coordinates
indicate_reset(n, new_row, new_col) ==
    IF n.tag = "Unknown" THEN Present(new_row, new_col)
    ELSE IF n.tag = "Present"
         THEN Corrupted(<< <<n.row, n.col>>, <<new_row, new_col>> >>)
         ELSE IF Len(n.indexes) >= BoxSide THEN Present(new_row, new_col)
              ELSE Corrupted(Append(n.indexes, <<new_row, new_col>>))

\* Number::indicate(&mut self, new_row, new_col): the slot afterwards
indicate(n, new_row, new_col) ==
    IF n.tag = "Unknown" THEN Present(new_row, new_col)
    ELSE IF n.tag = "Present"
         THEN Corrupted(<< <<n.row, n.col>>, <<new_row, new_col>> >>)
         ELSE IF Len(n.indexes) >= IndexesCapacity THEN Overflow
              ELSE Corrupted(Append(n.indexes, <<new_row, new_col>>))

\* Number::into_err(self, value, type_): Option as a sequence of 0 or 1 errors
Dublication(kind, index, value, indexes) ==
    [kind |-> kind, index |-> index, value |-> value, indexes |-> indexes]

into_err(n, value, kind, index) ==
    IF n.tag = "Corrupted" THEN <<Dublication(kind, index, value, n.indexes)>>
    ELSE <<>>

-----------------------------------------------------------------------------
(* Sudoku::validate: the cell pass *)

Builds == {"debug", "release"}

\* [x; SUDOKU_SIZE] from index n on, as an explicit array
RECURSIVE ArrayFrom(_, _)
ArrayFrom(x, n) ==
    IF n = SUDOKU_SIZE - 1 THEN n :> x ELSE (n :> x) @@ ArrayFrom(x, n + 1)

\* [[Number; 9]; 9] as Default::default() leaves it
EmptySeen == ArrayFrom(ArrayFrom(Unknown, 0), 0)

\* box_index with i and j exchanged
box_index_transposed(i, j) == (j \div BoxSide) * BoxSide + (i \div BoxSide)

\* let box_index = (i / 3) * 3 + (j / 3)
box_index(i, j) == (i \div BoxSide) * BoxSide + (j \div BoxSide)

\* the index val - 1 of a seen row.  For val = 0 the usize subtraction
\* panics in a build with overflow checks; without them it wraps to
\* usize::MAX, which the bounds check of the array rejects.
SlotIndex(val, build) ==
    IF val = 0
    THEN IF build = "debug" THEN Panic("attempt to subtract with overflow")
         ELSE Panic("index out of bounds")
    ELSE IF val - 1 >= SUDOKU_SIZE THEN Panic("index out of bounds")
         ELSE [tag |-> "Ok", idx |-> val - 1]

\* the body of the inner loop for cell (i, j) holding val, on the three tables
CellStep(rows, cols, boxes, i, j, val, build) ==
    LET slot == SlotIndex(val, build)
    IN  IF slot.tag = "Panic" THEN slot
        ELSE LET k  == slot.idx
                 bi == box_index(i, j)
                 r  == indicate(rows[i][k], i, j)
                 c  == indicate(cols[j][k], i, j)
                 b  == indicate(boxes[bi][k], i, j)
             IN  IF Overflow \in {r, c, b} THEN Panic("capacity overflow")
                 ELSE [tag   |-> "Ok",
                       rows  |-> [rows EXCEPT ![i][k] = r],
                       cols  |-> [cols EXCEPT ![j][k] = c],
                       boxes |-> [boxes EXCEPT ![bi][k] = b]]

\* the two nested loops from cell number n on (row-major)
RECURSIVE CellPassFrom(_, _, _, _, _, _)
CellPassFrom(g, rows, cols, boxes, n, build) ==
    IF n = SUDOKU_SIZE * SUDOKU_SIZE
    THEN [tag |-> "Ok", rows |-> rows, cols |-> cols, boxes |-> boxes]
    ELSE LET i  == n \div SUDOKU_SIZE
             j  == n % SUDOKU_SIZE
             st == CellStep(rows, cols, boxes, i, j, g[i][j], build)
         IN  IF st.tag = "Panic" THEN st
             ELSE CellPassFrom(g, st.rows, st.cols, st.boxes, n + 1, build)

-----------------------------------------------------------------------------
(* Sudoku::validate: the extraction pass *)

\* get_validation_errors!(seen, kind) from slot number n on: groups in
\* ascending index, the slots of a group in ascending value
RECURSIVE ErrorsFrom(_, _, _)
ErrorsFrom(seen, kind, n) ==
    IF n = SUDOKU_SIZE * SUDOKU_SIZE THEN <<>>
    ELSE LET i == n \div SUDOKU_SIZE
             v == n % SUDOKU_SIZE
         IN  into_err(seen[i][v], v + 1, kind, i) \o ErrorsFrom(seen, kind, n + 1)

get_validation_errors(seen, kind) == ErrorsFrom(seen, kind, 0)

\* the chain with the column table first
chain_errors_column_first(rows, cols, boxes) ==
    get_validation_errors(cols, "Column")
        \o get_validation_errors(rows, "Row")
        \o get_validation_errors(boxes, "Box")

\* the three chained iterators: rows, then columns, then boxes
chain_errors(rows, cols, boxes) ==
    get_validation_errors(rows, "Row")
        \o get_validation_errors(cols, "Column")
        \o get_validation_errors(boxes, "Box")

\* .map(Some).collect::<Option<Vec<_>>>(): None if an item is None,
\* otherwise Some of the items, also when there are none
SomeOf(v) == [tag |-> "Some", v |-> v]
NoneOpt == [tag |-> "None"]
map_some(items) == [k \in 1..Len(items) |-> SomeOf(items[k])]
collect_option(opts) ==
    IF \E k \in 1..Len(opts) : opts[k].tag = "None" THEN NoneOpt
    ELSE SomeOf([k \in 1..Len(opts) |-> opts[k].v])

\* some_to_err::ErrOr::err_or: Some(e) is Err(e), None is Ok(ok)
err_or(opt, ok) ==
    IF opt.tag = "Some" THEN [tag |-> "Err", errs |-> opt.v]
    ELSE [tag |-> "Ok", grid |-> ok]

\* the tail expression of validate
finish(g, rows, cols, boxes) ==
    err_or(collect_option(map_some(chain_errors(rows, cols, boxes))), g)

\* Sudoku::validate(self) as one call
validate(g, build) ==
    LET pass == CellPassFrom(g, EmptySeen, EmptySeen, EmptySeen, 0, build)
    IN  IF pass.tag = "Panic" THEN pass
        ELSE finish(g, pass.rows, pass.cols, pass.boxes)


-----------------------------------------------------------------------------
(* Inputs *)

GridOf(rows) == [i \in Idx |-> [j \in Idx |-> rows[i + 1][j + 1]]]

\* a grid with every digit once per row, column and box
SolvedGrid ==
    GridOf(<< <<5, 3, 4, 6, 7, 8, 9, 1, 2>>,
              <<6, 7, 2, 1, 9, 5, 3, 4, 8>>,
              <<1, 9, 8, 3, 4, 2, 5, 6, 7>>,
              <<8, 5, 9, 7, 6, 1, 4, 2, 3>>,
              <<4, 2, 6, 8, 5, 3, 7, 9, 1>>,
              <<7, 1, 3, 9, 2, 4, 8, 5, 6>>,
              <<9, 6, 1, 5, 3, 7, 2, 8, 4>>,
              <<2, 8, 7, 4, 1, 9, 6, 3, 5>>,
              <<3, 4, 5, 2, 8, 6, 1, 7, 9>> >>)

\* the grid of tests::test_parse and tests::test_validate_sudoku
TestGrid == [SolvedGrid EXCEPT ![8][8] = 7]

\* the grid of tests::test_wrong_sudoku
AllOnesGrid == [i \in Idx |-> [j \in Idx |-> 1]]

BaseGrids == {SolvedGrid, TestGrid, AllOnesGrid}

ProbeCells ==
    << <<0, 0>>, <<0, 1>>, <<1, 0>>, <<8, 8>>, <<4, 4>>, <<0, 8>>, <<8, 0>>, <<2, 8>> >>

Probes == {ProbeCells[k] : k \in {k \in 1..Len(ProbeCells) : k <= NumProbes}}

\* what char::to_digit(10) can put in a cell
CellValues == 0..9

\* a base grid with at most two probe cells overwritten; two cells take
\* the same value v, or v and 9 - v
GridsOf(base) ==
    {base}
    \cup {[base EXCEPT ![p[1]][p[2]] = v] : p \in Probes, v \in CellValues}
    \cup {[base EXCEPT ![p[1]][p[2]] = v, ![q[1]][q[2]] = v] :
              p \in Probes, q \in Probes, v \in CellValues}
    \cup {[base EXCEPT ![p[1]][p[2]] = v, ![q[1]][q[2]] = 9 - v] :
              p \in Probes, q \in Probes, v \in CellValues}

Grids == UNION {GridsOf(base) : base \in BaseGrids}

\* a base grid with at most one probe cell overwritten
CellPassGrids ==
    BaseGrids
    \cup {[base EXCEPT ![p[1]][p[2]] = v] :
              base \in BaseGrids, p \in Probes, v \in CellValues}

\* row r of g in the input format: its digits, nothing between them
CompactLine(g, r) == [k \in 1..SUDOKU_SIZE |-> DigitChars[g[r % SUDOKU_SIZE][k - 1] + 1]]

\* ways of spoiling one line
Defects ==
    {[kind |-> k, col |-> c] : k \in {"sym", "longsym"}, c \in {0, 4}}
    \cup {[kind |-> k, col |-> 4] : k \in {"space", "shortsym", "split"}}
    \cup {[kind |-> k, col |-> 0] : k \in {"long", "short", "empty", "cr"}}

ApplyDefect(line, d) ==
    CASE d.kind = "sym"      -> [line EXCEPT ![d.col + 1] = "a"]
      [] d.kind = "space"    -> [line EXCEPT ![d.col + 1] = " "]
      [] d.kind = "split"    -> [line EXCEPT ![d.col + 1] = LF]
      [] d.kind = "long"     -> Append(line, "1")
      [] d.kind = "short"    -> SubSeq(line, 1, Len(line) - 1)
      [] d.kind = "longsym"  -> Append([line EXCEPT ![d.col + 1] = "x"], "1")
      [] d.kind = "shortsym" -> SubSeq([line EXCEPT ![d.col + 1] = "a"], 1, Len(line) - 1)
      [] d.kind = "empty"    -> <<>>
      [] d.kind = "cr"       -> Append(line, CR)

\* ls joined by LF, with a final LF if trailing
RECURSIVE JoinFrom(_, _, _)
JoinFrom(ls, k, trailing) ==
    IF k > Len(ls) THEN <<>>
    ELSE ls[k] \o (IF k < Len(ls) \/ trailing THEN <<LF>> ELSE <<>>)
         \o JoinFrom(ls, k + 1, trailing)

LineCounts == {0, 1} \cup {n \in (SUDOKU_SIZE - 1)..(SUDOKU_SIZE + 2) : n <= MaxLines}

DefectRows(n) == {0, 4, n - 1} \cap 0..(n - 1)

\* assignments of a defect to at most two of the rows
DefectPlans(n) ==
    {<<>>}
    \cup {<<[row |-> r, d |-> d]>> : r \in DefectRows(n), d \in Defects}
    \cup {<<[row |-> rq[1], d |-> d], [row |-> rq[2], d |-> e]>> :
              rq \in {rq \in DefectRows(n) \X DefectRows(n) : rq[1] < rq[2]},
              d \in Defects, e \in Defects}

SpoiledLine(g, r, plan) ==
    IF \E k \in 1..Len(plan) : plan[k].row = r
    THEN ApplyDefect(CompactLine(g, r), plan[CHOOSE k \in 1..Len(plan) : plan[k].row = r].d)
    ELSE CompactLine(g, r)

SpoiledText(g, n, plan, trailing) ==
    JoinFrom([r \in 1..n |-> SpoiledLine(g, r - 1, plan)], 1, trailing)

CompactText(g) == SpoiledText(g, SUDOKU_SIZE, <<>>, FALSE)

Texts ==
    {CompactText(g) : g \in Grids}
    \cup UNION {{SpoiledText(TestGrid, n, plan, trailing) :
                     plan \in DefectPlans(n), trailing \in BOOLEAN} : n \in LineCounts}

-----------------------------------------------------------------------------
(* The caller: parse, then display and validate *)

NoText == <<>>
NoResult == [tag |-> "NoResult"]

CellPassIdle ==
    /\ grid = AllOnesGrid
    /\ ci = 0
    /\ cj = 0
    /\ row_seen = EmptySeen
    /\ column_seen = EmptySeen
    /\ boxes_seen = EmptySeen
    /\ cres = NoResult
    /\ cpc = "idle"

CallerIdle ==
    /\ text = NoText
    /\ pc = "idle"
    /\ parsed = NoResult
    /\ vres = NoResult
    /\ rendered = NoText
    /\ reparsed = NoResult

cellVars == <<grid, ci, cj, row_seen, column_seen, boxes_seen, cres, cpc>>
callerVars == <<text, pc, parsed, vres, rendered, reparsed>>

Init ==
    /\ text \in Texts
    /\ pc = "start"
    /\ parsed = NoResult
    /\ vres = NoResult
    /\ rendered = NoText
    /\ reparsed = NoResult
    /\ CellPassIdle

\* text.parse::<Sudoku>()
Parse ==
    /\ pc = "start"
    /\ parsed' = from_str(text)
    /\ pc' = "parsed"
    /\ UNCHANGED <<text, vres, rendered, reparsed>>
    /\ UNCHANGED cellVars

\* the caller owns a Sudoku: the parsed one, or the one validate gave back
OwnsSudoku ==
    /\ parsed.tag = "Ok"
    /\ pc = "parsed" \/ (pc = "validated" /\ vres.tag = "Ok")

\* sudoku.validate()
Validate ==
    /\ pc = "parsed"
    /\ parsed.tag = "Ok"
    /\ \E build \in Builds : vres' = validate(parsed.grid, build)
    /\ pc' = "validated"
    /\ UNCHANGED <<text, parsed, rendered, reparsed>>
    /\ UNCHANGED cellVars

\* sudoku.to_string()
Display ==
    /\ OwnsSudoku
    /\ rendered = NoText
    /\ rendered' = fmt(parsed.grid)
    /\ UNCHANGED <<text, pc, parsed, vres, reparsed>>
    /\ UNCHANGED cellVars

\* rendered.parse::<Sudoku>()
Reparse ==
    /\ rendered # NoText
    /\ reparsed = NoResult
    /\ reparsed' = from_str(rendered)
    /\ UNCHANGED <<text, pc, parsed, vres, rendered>>
    /\ UNCHANGED cellVars

Next == Parse \/ Validate \/ Display \/ Reparse

Spec == Init /\ [][Next]_vars

-----------------------------------------------------------------------------
(* Sudoku::validate step by step *)

CellPassInit ==
    /\ CallerIdle
    /\ grid \in CellPassGrids
    /\ ci = 0
    /\ cj = 0
    /\ row_seen = EmptySeen
    /\ column_seen = EmptySeen
    /\ boxes_seen = EmptySeen
    /\ cres = NoResult
    /\ cpc = "cells"

\* one iteration of the inner loop: the three indicate calls for cell (ci, cj)
IndicateCell ==
    /\ cpc = "cells"
    /\ \E build \in Builds :
         LET st == CellStep(row_seen, column_seen, boxes_seen, ci, cj, grid[ci][cj], build)
         IN  IF st.tag = "Panic"
             THEN /\ cres' = st
                  /\ cpc' = "panicked"
                  /\ UNCHANGED <<ci, cj, row_seen, column_seen, boxes_seen>>
             ELSE /\ row_seen' = st.rows
                  /\ column_seen' = st.cols
                  /\ boxes_seen' = st.boxes
                  /\ cj' = IF cj + 1 = SUDOKU_SIZE THEN 0 ELSE cj + 1
                  /\ ci' = IF cj + 1 = SUDOKU_SIZE THEN ci + 1 ELSE ci
                  /\ cpc' = IF cj + 1 = SUDOKU_SIZE /\ ci + 1 = SUDOKU_SIZE
                            THEN "extract" ELSE "cells"
                  /\ cres' = cres
    /\ UNCHANGED grid
    /\ UNCHANGED callerVars

\* the extraction pass and the return
Extract ==
    /\ cpc = "extract"
    /\ cres' = finish(grid, row_seen, column_seen, boxes_seen)
    /\ cpc' = "done"
    /\ UNCHANGED <<grid, ci, cj, row_seen, column_seen, boxes_seen>>
    /\ UNCHANGED callerVars

CellPassNext == IndicateCell \/ Extract

SpecCellPass == CellPassInit /\ [][CellPassNext]_vars


-----------------------------------------------------------------------------
(* What the claims speak of, stated apart from the code *)

Kinds == {"Row", "Column", "Box"}

KindRank(kind) == CASE kind = "Row" -> 0 [] kind = "Column" -> 1 [] kind = "Box" -> 2

\* the cells of every group
GroupCells ==
    [kind \in Kinds |-> [index \in Idx |->
        {c \in Idx \X Idx :
            CASE kind = "Row"    -> c[1] = index
              [] kind = "Column" -> c[2] = index
              [] kind = "Box"    -> (c[1] \div 3) * 3 + (c[2] \div 3) = index}]]

\* the cells of a group of g that hold digit d
Occurrences(g, kind, index, d) ==
    {c \in GroupCells[kind][index] : g[c[1]][c[2]] = d}

\* the (group, digit) pairs of g in which the digit is duplicated
Duplicated(g, digits) ==
    {t \in Kinds \X Idx \X digits :
        Cardinality(Occurrences(g, t[1], t[2], t[3])) >= 2}

InPlacementDomain(g) == \A i \in Idx, j \in Idx : g[i][j] \in 1..9

Validated == pc = "validated"

\* the violations a finished validate reported
Violations == IF vres.tag = "Err" THEN vres.errs ELSE <<>>

ScanRank(c) == c[1] * SUDOKU_SIZE + c[2]

IsDecimalDigit(c) == c \in {"0", "1", "2", "3", "4", "5", "6", "7", "8", "9"}

DigitValue(c) ==
    CASE c = "0" -> 0 [] c = "1" -> 1 [] c = "2" -> 2 [] c = "3" -> 3 [] c = "4" -> 4
      [] c = "5" -> 5 [] c = "6" -> 6 [] c = "7" -> 7 [] c = "8" -> 8 [] c = "9" -> 9

HasBadSymbol(line) == \E k \in 1..Len(line) : ~IsDecimalDigit(line[k])

FirstBadPosition(line) ==
    CHOOSE k \in 1..Len(line) :
        /\ ~IsDecimalDigit(line[k])
        /\ \A m \in 1..(k - 1) : IsDecimalDigit(line[m])

FirstBadSymbol(line) == line[FirstBadPosition(line)]

Offending(line) == HasBadSymbol(line) \/ Len(line) # 9

\* the 0-based numbers of the offending lines
OffendingRows(ls) == {r \in 0..(Len(ls) - 1) : Offending(ls[r + 1])}

FirstOffending(ls) == CHOOSE r \in OffendingRows(ls) : \A q \in OffendingRows(ls) : r <= q

WithoutSpaces(s) == SelectSeq(s, LAMBDA c : c # " ")

-----------------------------------------------------------------------------
(* C1 *)

\* C1: for a grid with cells in 1..9, validate reports exactly one violation
\* per (group, digit) pair whose digit occurs at least twice in the group,
\* and each violation lists as many coordinates as the digit has occurrences.
C1_ValidationComplete ==
    (Validated /\ InPlacementDomain(parsed.grid)) =>
        /\ vres.tag \in {"Ok", "Err"}
        /\ Len(Violations) = Cardinality(Duplicated(parsed.grid, 1..9))
        /\ \A k \in 1..Len(Violations) :
             Len(Violations[k].indexes) =
                 Cardinality(Occurrences(parsed.grid, Violations[k].kind,
                                         Violations[k].index, Violations[k].value))

\* the all-ones grid: 27 violations of 9 coordinates each
C1_Witness ==
    /\ Validated
    /\ parsed.grid = AllOnesGrid
    /\ Len(Violations) = 27
    /\ \A k \in 1..Len(Violations) : Len(Violations[k].indexes) = 9

-----------------------------------------------------------------------------
(* C2 *)

\* C2 as stated: parsing the text Display rendered for a grid gives back
\* Ok with that grid.
C2_RoundTrip ==
    reparsed # NoResult => reparsed = OkGrid(parsed.grid)

\* C2 amended: the rendering separates the digits by spaces, which the
\* parser rejects, so parsing the rendered text fails with WrongSymbol(' ');
\* with the separating spaces removed it parses to Ok with the same grid.
C2_RoundTripWithoutSeparators ==
    reparsed # NoResult =>
        /\ reparsed = WrongSymbol(" ")
        /\ from_str(WithoutSpaces(rendered)) = OkGrid(parsed.grid)

\* the grid of the tests was rendered and the rendering parsed
C2_Witness ==
    /\ reparsed # NoResult
    /\ parsed.tag = "Ok"
    /\ parsed.grid = TestGrid
    /\ Len(rendered) = 2 * SUDOKU_SIZE * SUDOKU_SIZE

-----------------------------------------------------------------------------
(* C3 *)

\* C3: on a grid with cells in 1..9, validate returns Ok exactly when no
\* digit occurs twice in a row, column or box, and the grid it returns is
\* the input grid.
C3_OkIffNoDuplicate ==
    (Validated /\ InPlacementDomain(parsed.grid)) =>
        /\ (vres.tag = "Ok") <=> (Duplicated(parsed.grid, 1..9) = {})
        /\ vres.tag = "Ok" => vres.grid = parsed.grid

-----------------------------------------------------------------------------
(* C4 *)

\* C4: the violations are strictly ascending by (kind, group index, digit),
\* with Row before Column before Box; so no triple is reported twice.
C4_ViolationsOrdered ==
    Validated =>
        \A a \in 1..Len(Violations), b \in 1..Len(Violations) :
            a < b =>
                LET x == Violations[a]
                    y == Violations[b]
                IN  \/ KindRank(x.kind) < KindRank(y.kind)
                    \/ /\ x.kind = y.kind
                       /\ x.index < y.index
                    \/ /\ x.kind = y.kind
                       /\ x.index = y.index
                       /\ x.value < y.value

\* a list with all three kinds, two groups of one kind and two digits of one group
C4_Witness ==
    /\ Validated
    /\ \A kind \in Kinds : \E k \in 1..Len(Violations) : Violations[k].kind = kind
    /\ \E a \in 1..Len(Violations), b \in 1..Len(Violations) :
         /\ Violations[a].kind = Violations[b].kind
         /\ Violations[a].index # Violations[b].index
    /\ \E a \in 1..Len(Violations), b \in 1..Len(Violations) :
         /\ Violations[a].kind = Violations[b].kind
         /\ Violations[a].index = Violations[b].index
         /\ Violations[a].value # Violations[b].value

-----------------------------------------------------------------------------
(* C5 *)

\* C5: parsing fails on the first offending line r: with WrongSymbol(c) for
\* the first non-digit c of line r if it has one, whatever its length and
\* whatever the later lines hold; otherwise with WrongRowSize{r, length}.
C5_FirstOffendingRow ==
    (pc # "start" /\ OffendingRows(lines(text)) # {}) =>
        LET r    == FirstOffending(lines(text))
            line == lines(text)[r + 1]
        IN  IF HasBadSymbol(line)
            THEN parsed = WrongSymbol(FirstBadSymbol(line))
            ELSE parsed = WrongRowSize(r, Len(line))

\* a line with a bad symbol and a wrong length, before a line whose bad
\* symbol stands further left
C5_Witness ==
    /\ pc = "parsed"
    /\ parsed.tag = "WrongSymbol"
    /\ \E r \in OffendingRows(lines(text)), q \in OffendingRows(lines(text)) :
         /\ r = FirstOffending(lines(text))
         /\ r < q
         /\ HasBadSymbol(lines(text)[r + 1])
         /\ Len(lines(text)[r + 1]) # 9
         /\ HasBadSymbol(lines(text)[q + 1])
         /\ FirstBadPosition(lines(text)[q + 1]) < FirstBadPosition(lines(text)[r + 1])
         /\ parsed.c = FirstBadSymbol(lines(text)[r + 1])
         /\ parsed.c # FirstBadSymbol(lines(text)[q + 1])

-----------------------------------------------------------------------------
(* C6 *)

\* C6: the result is WrongColumnSize{n} exactly when none of the n lines is
\* offending and n is not 9; an offending line, wherever it stands, is
\* reported instead.
C6_ColumnSizeIff ==
    pc # "start" =>
        LET ls == lines(text)
        IN  /\ (parsed.tag = "WrongColumnSize") <=>
                   (OffendingRows(ls) = {} /\ Len(ls) # 9)
            /\ parsed.tag = "WrongColumnSize" => parsed.column_count = Len(ls)
            /\ OffendingRows(ls) # {} => parsed.tag \in {"WrongSymbol", "WrongRowSize"}

\* ten good lines
C6_Witness ==
    /\ pc = "parsed"
    /\ parsed = WrongColumnSize(10)
    /\ Len(lines(text)) = 10

-----------------------------------------------------------------------------
(* C7 *)

\* C7: parsing succeeds exactly when the text has 9 lines of 9 decimal
\* digits each, and cell (i, j) is then the value of character j of line i.
C7_ParseOkIff ==
    pc # "start" =>
        LET ls == lines(text)
        IN  /\ (parsed.tag = "Ok") <=>
                   /\ Len(ls) = 9
                   /\ \A r \in 1..Len(ls) :
                        /\ Len(ls[r]) = 9
                        /\ \A k \in 1..Len(ls[r]) : IsDecimalDigit(ls[r][k])
            /\ parsed.tag = "Ok" =>
                   \A i \in Idx, j \in Idx :
                       parsed.grid[i][j] = DigitValue(ls[i + 1][j + 1])

\* a parsed grid holding a 0 and a 9
C7_Witness ==
    /\ pc = "parsed"
    /\ parsed.tag = "Ok"
    /\ \E i \in Idx, j \in Idx : parsed.grid[i][j] = 0
    /\ \E i \in Idx, j \in Idx : parsed.grid[i][j] = 9

-----------------------------------------------------------------------------
(* C8 *)

SeenTables == <<row_seen, column_seen, boxes_seen>>

\* one slot over one step: untouched, or one move forward
SlotMovesForward(old, new) ==
    \/ new = old
    \/ /\ old.tag = "Unknown"
       /\ new.tag = "Present"
    \/ /\ old.tag = "Present"
       /\ new.tag = "Corrupted"
       /\ Len(new.indexes) = 2
       /\ new.indexes[1] = <<old.row, old.col>>
    \/ /\ old.tag = "Corrupted"
       /\ new.tag = "Corrupted"
       /\ Len(new.indexes) = Len(old.indexes) + 1
       /\ SubSeq(new.indexes, 1, Len(old.indexes)) = old.indexes

\* the coordinate a touched slot took in is the cell being visited
SlotTookCell(old, new, i, j) ==
    \/ new = old
    \/ new.tag = "Present" /\ <<new.row, new.col>> = <<i, j>>
    \/ new.tag = "Corrupted" /\ new.indexes[Len(new.indexes)] = <<i, j>>

\* C8: in every step of validate each of the 243 slots stays as it is or
\* moves one step forward, Unknown to Present to Corrupted, keeping the
\* coordinates it held and adding that of the visited cell; none is reset.
C8_SlotsOnlyMoveForward ==
    [][\A t \in 1..3, g \in Idx, v \in Idx :
          /\ SlotMovesForward(SeenTables[t][g][v], SeenTables'[t][g][v])
          /\ SlotTookCell(SeenTables[t][g][v], SeenTables'[t][g][v], ci, cj)]_vars

\* the cell pass is over with slots in all three states, one of them
\* holding more than two coordinates
C8_Witness ==
    /\ cpc = "extract"
    /\ \E g \in Idx, v \in Idx : row_seen[g][v].tag = "Unknown"
    /\ \E g \in Idx, v \in Idx : row_seen[g][v].tag = "Present"
    /\ \E g \in Idx, v \in Idx :
         /\ row_seen[g][v].tag = "Corrupted"
         /\ Len(row_seen[g][v].indexes) > 2

-----------------------------------------------------------------------------
(* C9 *)

\* C9: for a grid with cells in 1..9, every violation lists exactly the
\* cells of its group that hold its digit, each once, in row-major order,
\* between 2 and 9 of them; no push exceeds the capacity of Indexes.
C9_CoordinatesExact ==
    (Validated /\ InPlacementDomain(parsed.grid)) =>
        /\ vres.tag # "Panic"
        /\ \A k \in 1..Len(Violations) :
             LET e == Violations[k]
             IN  /\ e.kind \in Kinds
                 /\ e.index \in Idx
                 /\ {e.indexes[m] : m \in 1..Len(e.indexes)} =
                        Occurrences(parsed.grid, e.kind, e.index, e.value)
                 /\ \A m \in 1..(Len(e.indexes) - 1) :
                        ScanRank(e.indexes[m]) < ScanRank(e.indexes[m + 1])
                 /\ Len(e.indexes) >= 2
                 /\ Len(e.indexes) <= 9

\* violations with 2 and with 9 coordinates in one list
C9_Witness ==
    /\ Validated
    /\ InPlacementDomain(parsed.grid)
    /\ \E k \in 1..Len(Violations) : Len(Violations[k].indexes) = 2
    /\ \E k \in 1..Len(Violations) : Len(Violations[k].indexes) = 9

-----------------------------------------------------------------------------
(* C10 *)

\* C10: for every grid parsing can return, cells holding 0 included,
\* validate completes, returning the grid or a violation list.
C10_ValidateCompletes ==
    Validated => vres.tag \in {"Ok", "Err"}

=============================================================================
